---------------------------- MODULE Spec2Model ----------------------------
(***************************************************************************)
(* Failover / failback orchestration of the Jupiter infrastructure:        *)
(*   src/failover-automation.py  CLI failover(service) / failback(service) *)
(*   src/failover-fixed.py       alarm-triggered handler(event, context)   *)
(*   src/quick-fix-lambda.py     permissive handler(event, context)        *)
(* The cloud provider (instances, target groups) is the environment: an    *)
(* instance moves pending -> running and stopping -> stopped on its own,   *)
(* and every provider call may raise.  Invocations run one after another.  *)
(***************************************************************************)
EXTENDS Integers, Sequences, FiniteSets

VARIABLES
    inst,       \* instance id -> lifecycle state (the provider's view)
    targets,    \* target group -> set of registered instance ids
    pc,         \* position of the running invocation ("idle", a step, "done")
    op,         \* entry point of the invocation
    input,      \* its argument: [valid, text]
    service,    \* local: service / triggered_service
    primary,    \* local: primary / primary_id
    backup,     \* local: backup / backup_id
    target_group, \* local: target_group
    attempts,   \* local of the waiter: polls made
    calls,      \* provider calls issued by this invocation (all but the
                \* describe_instances lookups), in order: [api, id, ok]
    result,     \* what the invocation returned: [ret, statusCode, body]
    inst0,      \* inst when the invocation began
    targets0,   \* targets when the invocation began
    prev,       \* the invocation completed just before this one
    lastReq,    \* instance id -> last stop/start request the provider took for it
    n           \* invocations begun

vars == <<inst, targets, pc, op, input, service, primary, backup, target_group,
          attempts, calls, result, inst0, targets0, prev, lastReq, n>>

(***************************************************************************)
(* Bounds of the model.                                                    *)
(***************************************************************************)
MaxInvocations == 2

(***************************************************************************)
(* The deployment: services, instances, their Name tags, the environment.  *)
(***************************************************************************)
None == "None"

\* the fixed service list of the bulk commands and of the permissive handler
services == <<"signaling", "coturn", "frp", "thingsboard">>

ServiceSet == {services[i] : i \in 1..Len(services)}

InstanceIds == {"i-sig-p", "i-sig-b", "i-cot-p", "i-cot-b"}

\* tag:Name of each instance, as "{service}-{role}"
NameTag(id) ==
    CASE id = "i-sig-p" -> <<"signaling", "primary">>
      [] id = "i-sig-b" -> <<"signaling", "backup">>
      [] id = "i-cot-p" -> <<"coturn", "primary">>
      [] id = "i-cot-b" -> <<"coturn", "backup">>

\* str.upper() on the words that reach it
Upper(s) ==
    CASE s \in {"signaling", "Signaling"} -> "SIGNALING"
      [] s = "coturn" -> "COTURN"
      [] s = "frp" -> "FRP"
      [] s = "thingsboard" -> "THINGSBOARD"
      [] s = "health" -> "HEALTH"
      [] OTHER -> s

\* os.environ.get(key): BACKUP_<SERVICE> and TG_<SERVICE> of the deployment
Environ(prefix, name) ==
    CASE prefix = "BACKUP_" /\ name = "SIGNALING" -> "i-sig-b"
      [] prefix = "BACKUP_" /\ name = "COTURN" -> "i-cot-b"
      [] prefix = "TG_" /\ name = "SIGNALING" -> "tg-signaling"
      [] prefix = "TG_" /\ name = "FRP" -> "tg-frp"
      [] OTHER -> None

TargetGroups == {"tg-signaling", "tg-frp"}

States == {"pending", "running", "stopping", "stopped", "terminated"}


(***************************************************************************)
(* The provider's side of the calls the code makes.                        *)
(***************************************************************************)
\* ec2.describe_instances(Filters=[tag:Name = tag, instance-state-name in states])
DescribeInstances(tag, states) ==
    {id \in InstanceIds : NameTag(id) = tag /\ inst[id] \in states}

\* the state an accepted stop_instances leaves the instance in
StopEffect(st) == IF st = "running" THEN "stopping" ELSE st

\* the state an accepted start_instances leaves the instance in
StartEffect(st) == IF st = "stopped" THEN "pending" ELSE st

\* the provider rejects a stop of a pending or terminated instance
StopAccepted(st) == st \in {"running", "stopping", "stopped"}

\* the provider rejects a start of a stopping or terminated instance
StartAccepted(st) == st \in {"pending", "running", "stopped"}

\* ec2.stop_instances(InstanceIds=[id]); ok = FALSE when the call raises
StopInstances(id, ok) ==
    /\ inst' = IF ok THEN [inst EXCEPT ![id] = StopEffect(inst[id])] ELSE inst
    /\ calls' = Append(calls, [api |-> "stop_instances", id |-> id, ok |-> ok])
    /\ lastReq' = [i \in InstanceIds |->
                        IF ok /\ i = id THEN "stop" ELSE lastReq[i]]

\* ec2.start_instances(InstanceIds=[id]); ok = FALSE when the call raises
StartInstances(id, ok) ==
    /\ inst' = IF ok THEN [inst EXCEPT ![id] = StartEffect(inst[id])] ELSE inst
    /\ calls' = Append(calls, [api |-> "start_instances", id |-> id, ok |-> ok])
    /\ lastReq' = [i \in InstanceIds |->
                        IF ok /\ i = id THEN "start" ELSE lastReq[i]]

\* the outcomes a stop / start call on id can have in the current state
\* (a call that names no instance raises)
StopOutcomes(id) ==
    {ok \in BOOLEAN : ok => (id \in InstanceIds /\ StopAccepted(inst[id]))}

StartOutcomes(id) ==
    {ok \in BOOLEAN : ok => (id \in InstanceIds /\ StartAccepted(inst[id]))}

\* faulty variant: the waiter is satisfied as soon as the instance is on its way up
WaiterSuccessPending(st) == st \in {"pending", "running"}

\* the acceptor of the instance_running waiter
WaiterSuccess(st) == st = "running"

(***************************************************************************)
(* Results.                                                                *)
(***************************************************************************)
NoResult == [ret |-> "none", statusCode |-> 0, body |-> <<>>]

\* return True / return False of the CLI; "exception" when a call raised
Returned(ret) == [ret |-> ret, statusCode |-> 0, body |-> <<>>]

\* {'statusCode': code, 'body': body} of the handlers
Response(code, body) == [ret |-> "response", statusCode |-> code, body |-> body]

Finish(r) == pc' = "done" /\ result' = r

\* the outcome is a success: return True, or a 200 response
Succeeded(r) == r.ret = "True" \/ r.statusCode = 200

\* the instance carrying the tag "{svc}-{role}", whatever its state
InstanceOf(svc, role) ==
    LET tagged == {id \in InstanceIds : NameTag(id) = <<svc, role>>}
    IN  IF tagged = {} THEN None ELSE CHOOSE id \in tagged : TRUE

\* the nominal situation of a service: primary running, backup stopped
Nominal(svc, f) ==
    /\ InstanceOf(svc, "primary") # None /\ InstanceOf(svc, "backup") # None
    /\ f[InstanceOf(svc, "primary")] = "running"
    /\ f[InstanceOf(svc, "backup")] = "stopped"

NoPrev == [op |-> "none", service |-> None, ok |-> FALSE, nominal |-> FALSE]

\* what every entry point sets up when it is invoked
Begin(o, arg) ==
    /\ pc \in {"idle", "done"}
    /\ n < MaxInvocations
    /\ n' = n + 1
    /\ op' = o
    /\ input' = arg
    /\ calls' = <<>>
    /\ attempts' = 0
    /\ inst0' = inst
    /\ targets0' = targets
    /\ prev' = IF pc = "done"
               THEN [op |-> op, service |-> service, ok |-> Succeeded(result),
                     nominal |-> Nominal(service, inst0)]
               ELSE NoPrev
    /\ UNCHANGED <<inst, targets, lastReq>>

(***************************************************************************)
(* src/failover-automation.py                                              *)
(***************************************************************************)
\* faulty variant: the lookup filters on running instances only, as the handlers do
GetRunningInstanceId(tag) ==
    LET found == DescribeInstances(tag, {"running"})
    IN  IF found # {} THEN CHOOSE id \in found : TRUE ELSE None

\* get_instance_id(tag_name): first match among running / stopped, or None
GetInstanceId(tag) ==
    LET found == DescribeInstances(tag, {"running", "stopped"})
    IN  IF found # {} THEN CHOOSE id \in found : TRUE ELSE None

\* faulty variant: only the primary is checked
NotFoundPrimaryOnly(p, b) == p = None

\* `if not primary or not backup`
NotFound(p, b) == p = None \/ b = None

\* the CLI's argument: any service name of the usage text
CliArgs == {"signaling", "coturn", "frp"}

\* failover(service) is called
failover(s) ==
    /\ Begin("failover", [valid |-> TRUE, text |-> <<s>>])
    /\ service' = s
    /\ primary' = None /\ backup' = None /\ target_group' = None
    /\ pc' = "fo_lookup"
    /\ result' = NoResult

\* lines 26-31: both lookups, then the check
failover_lookup ==
    /\ pc = "fo_lookup"
    /\ \E ok \in BOOLEAN :
         IF ok
         THEN LET p == GetInstanceId(<<service, "primary">>)
                  b == GetInstanceId(<<service, "backup">>)
              IN  /\ primary' = p /\ backup' = b
                  /\ IF NotFound(p, b)
                     THEN Finish(Returned("False"))
                     ELSE pc' = "fo_stop" /\ result' = result
         ELSE /\ Finish(Returned("exception"))
              /\ UNCHANGED <<primary, backup>>
    /\ UNCHANGED <<inst, targets, op, input, service, target_group, attempts,
                   calls, inst0, targets0, prev, lastReq, n>>

\* line 35: ec2.stop_instances(InstanceIds=[primary])
failover_stop ==
    /\ pc = "fo_stop"
    /\ \E ok \in StopOutcomes(primary) :
         /\ StopInstances(primary, ok)
         /\ IF ok THEN pc' = "fo_start" /\ result' = result
                  ELSE Finish(Returned("exception"))
    /\ UNCHANGED <<targets, op, input, service, primary, backup, target_group,
                   attempts, inst0, targets0, prev, n>>

\* faulty variant: the start is issued for the primary
failover_start_primary ==
    /\ pc = "fo_start"
    /\ \E ok \in StartOutcomes(primary) :
         /\ StartInstances(primary, ok)
         /\ IF ok THEN pc' = "fo_wait" /\ result' = result
                  ELSE Finish(Returned("exception"))
    /\ UNCHANGED <<targets, op, input, service, primary, backup, target_group,
                   attempts, inst0, targets0, prev, n>>

\* line 38: ec2.start_instances(InstanceIds=[backup])
failover_start ==
    /\ pc = "fo_start"
    /\ \E ok \in StartOutcomes(backup) :
         /\ StartInstances(backup, ok)
         /\ IF ok THEN pc' = "fo_wait" /\ result' = result
                  ELSE Finish(Returned("exception"))
    /\ UNCHANGED <<targets, op, input, service, primary, backup, target_group,
                   attempts, inst0, targets0, prev, n>>

\* lines 41-46: waiter.wait(InstanceIds=[backup]) with no WaiterConfig, then
\* return True; the wait ends when the backup is seen running or the waiter raises
failover_wait ==
    /\ pc = "fo_wait"
    /\ \E ok \in BOOLEAN :
         IF ok
         THEN WaiterSuccess(inst[backup]) /\ Finish(Returned("True"))
         ELSE Finish(Returned("exception"))
    /\ UNCHANGED <<inst, targets, op, input, service, primary, backup,
                   target_group, attempts, calls, inst0, targets0, prev,
                   lastReq, n>>

\* failback(service) is called
failback(s) ==
    /\ Begin("failback", [valid |-> TRUE, text |-> <<s>>])
    /\ service' = s
    /\ primary' = None /\ backup' = None /\ target_group' = None
    /\ pc' = "fb_lookup"
    /\ result' = NoResult

\* lines 50-55
failback_lookup ==
    /\ pc = "fb_lookup"
    /\ \E ok \in BOOLEAN :
         IF ok
         THEN LET p == GetInstanceId(<<service, "primary">>)
                  b == GetInstanceId(<<service, "backup">>)
              IN  /\ primary' = p /\ backup' = b
                  /\ IF NotFound(p, b)
                     THEN Finish(Returned("False"))
                     ELSE pc' = "fb_stop" /\ result' = result
         ELSE /\ Finish(Returned("exception"))
              /\ UNCHANGED <<primary, backup>>
    /\ UNCHANGED <<inst, targets, op, input, service, target_group, attempts,
                   calls, inst0, targets0, prev, lastReq, n>>

\* faulty variant: the stop is issued for the primary, as in failover
failback_stop_primary ==
    /\ pc = "fb_stop"
    /\ \E ok \in StopOutcomes(primary) :
         /\ StopInstances(primary, ok)
         /\ IF ok THEN pc' = "fb_start" /\ result' = result
                  ELSE Finish(Returned("exception"))
    /\ UNCHANGED <<targets, op, input, service, primary, backup, target_group,
                   attempts, inst0, targets0, prev, n>>

\* line 59: ec2.stop_instances(InstanceIds=[backup])
failback_stop ==
    /\ pc = "fb_stop"
    /\ \E ok \in StopOutcomes(backup) :
         /\ StopInstances(backup, ok)
         /\ IF ok THEN pc' = "fb_start" /\ result' = result
                  ELSE Finish(Returned("exception"))
    /\ UNCHANGED <<targets, op, input, service, primary, backup, target_group,
                   attempts, inst0, targets0, prev, n>>

\* faulty variant: the start is issued for the backup, as in failover
failback_start_backup ==
    /\ pc = "fb_start"
    /\ \E ok \in StartOutcomes(backup) :
         /\ StartInstances(backup, ok)
         /\ IF ok THEN pc' = "fb_wait" /\ result' = result
                  ELSE Finish(Returned("exception"))
    /\ UNCHANGED <<targets, op, input, service, primary, backup, target_group,
                   attempts, inst0, targets0, prev, n>>

\* line 62: ec2.start_instances(InstanceIds=[primary])
failback_start ==
    /\ pc = "fb_start"
    /\ \E ok \in StartOutcomes(primary) :
         /\ StartInstances(primary, ok)
         /\ IF ok THEN pc' = "fb_wait" /\ result' = result
                  ELSE Finish(Returned("exception"))
    /\ UNCHANGED <<targets, op, input, service, primary, backup, target_group,
                   attempts, inst0, targets0, prev, n>>

\* lines 65-70: waiter.wait(InstanceIds=[primary]), then return True
failback_wait ==
    /\ pc = "fb_wait"
    /\ \E ok \in BOOLEAN :
         IF ok
         THEN WaiterSuccess(inst[primary]) /\ Finish(Returned("True"))
         ELSE Finish(Returned("exception"))
    /\ UNCHANGED <<inst, targets, op, input, service, primary, backup,
                   target_group, attempts, calls, inst0, targets0, prev,
                   lastReq, n>>

(***************************************************************************)
(* src/failover-fixed.py: the alarm-triggered handler                      *)
(***************************************************************************)
\* WaiterConfig={'Delay': 10, 'MaxAttempts': 12}
MaxAttempts == 12

\* AlarmName values of the SNS message, as the segments '-' separates;
\* <<"">> is the default '' of sns_message.get('AlarmName', '')
AlarmNames ==
    { <<"signaling", "health", "check">>, <<"coturn", "down">>,
      <<"frp", "health">>, <<"Signaling", "health">>, <<"">> }

\* the events the handler receives: a well-formed SNS record, or anything else
AlarmEvents ==
    {[valid |-> TRUE, text |-> a] : a \in AlarmNames}
        \cup {[valid |-> FALSE, text |-> <<>>]}

\* alarm_name.split('-')[0]
ServiceOfAlarm(alarm_name) == Head(alarm_name)

\* handler(event, context) is invoked: lines 13-33
alarm_handler(event) ==
    /\ Begin("alarm", event)
    /\ primary' = None
    /\ IF ~event.valid
       THEN /\ Finish(Response(400, <<"Invalid event format", "">>))
            /\ service' = None /\ backup' = None /\ target_group' = None
       ELSE LET svc == ServiceOfAlarm(event.text)
                backup_id == Environ("BACKUP_", Upper(svc))
            IN  /\ service' = svc
                /\ backup' = backup_id
                /\ target_group' = Environ("TG_", Upper(svc))
                /\ IF backup_id = None
                   THEN Finish(Response(404, <<"No backup for", svc>>))
                   ELSE pc' = "al_describe" /\ result' = NoResult

\* what the outer `except Exception` returns
FailoverFailed(e) == Response(500, <<"Failover failed", e>>)

\* lines 37-49: find the primary among the running instances
alarm_describe ==
    /\ pc = "al_describe"
    /\ \E ok \in BOOLEAN :
         IF ok
         THEN LET found == DescribeInstances(<<service, "primary">>, {"running"})
              IN  IF found = {}
                  THEN Finish(Response(404, <<"Primary not found", "">>))
                       /\ primary' = primary
                  ELSE /\ primary' = CHOOSE id \in found : TRUE
                       /\ pc' = "al_stop" /\ result' = result
         ELSE Finish(FailoverFailed("ClientError")) /\ primary' = primary
    /\ UNCHANGED <<inst, targets, op, input, service, backup, target_group,
                   attempts, calls, inst0, targets0, prev, lastReq, n>>

\* line 53: ec2.stop_instances(InstanceIds=[primary_id])
alarm_stop ==
    /\ pc = "al_stop"
    /\ \E ok \in StopOutcomes(primary) :
         /\ StopInstances(primary, ok)
         /\ IF ok THEN pc' = "al_start" /\ result' = result
                  ELSE Finish(FailoverFailed("ClientError"))
    /\ UNCHANGED <<targets, op, input, service, primary, backup, target_group,
                   attempts, inst0, targets0, prev, n>>

\* line 57: ec2.start_instances(InstanceIds=[backup_id])
alarm_start ==
    /\ pc = "al_start"
    /\ \E ok \in StartOutcomes(backup) :
         /\ StartInstances(backup, ok)
         /\ IF ok THEN pc' = "al_wait" /\ result' = result
                  ELSE Finish(FailoverFailed("ClientError"))
    /\ UNCHANGED <<targets, op, input, service, primary, backup, target_group,
                   attempts, inst0, targets0, prev, n>>

\* lines 92-96
FailoverComplete(svc) == Response(200, <<"Failover complete for", svc>>)

\* what follows the wait: `if target_group:` (line 65), else lines 92-96
AfterWait ==
    /\ attempts' = 0
    /\ IF target_group # None
       THEN pc' = "al_deregister" /\ result' = result
       ELSE Finish(FailoverComplete(service))

\* faulty variant: when the polls are used up the handler carries on
WaitAgainCarryOn ==
    IF attempts + 1 >= MaxAttempts
    THEN AfterWait
    ELSE pc' = pc /\ result' = result /\ attempts' = attempts + 1

\* what the waiter does after a poll that did not see the backup running:
\* WaiterError once MaxAttempts polls are made, else sleep and poll again
WaitAgain ==
    IF attempts + 1 >= MaxAttempts
    THEN Finish(FailoverFailed("Max attempts exceeded")) /\ attempts' = 0
    ELSE pc' = pc /\ result' = result /\ attempts' = attempts + 1

\* lines 60-62: one poll of waiter.wait(InstanceIds=[backup_id], WaiterConfig=...)
alarm_wait ==
    /\ pc = "al_wait"
    /\ \E ok \in BOOLEAN :
         IF ~ok THEN Finish(FailoverFailed("ClientError")) /\ attempts' = 0
         ELSE IF WaiterSuccess(inst[backup]) THEN AfterWait
         ELSE WaitAgain
    /\ UNCHANGED <<inst, targets, op, input, service, primary, backup,
                   target_group, calls, inst0, targets0, prev, lastReq, n>>

\* faulty variant: the failure of deregister_targets reaches the outer except
DeregisterFailureFatal == Finish(FailoverFailed("ClientError"))

\* what a failed deregister_targets leads to: logged, then on to registering
AfterDeregisterFailure == pc' = "al_register" /\ result' = result

\* lines 69-76: elbv2.deregister_targets(primary_id), failure logged
alarm_deregister ==
    /\ pc = "al_deregister"
    /\ \E ok \in BOOLEAN :
         /\ calls' = Append(calls, [api |-> "deregister_targets",
                                    id |-> primary, ok |-> ok])
         /\ IF ok
            THEN /\ targets' = [targets EXCEPT ![target_group] = @ \ {primary}]
                 /\ pc' = "al_register" /\ result' = result
            ELSE targets' = targets /\ AfterDeregisterFailure
    /\ UNCHANGED <<inst, op, input, service, primary, backup, target_group,
                   attempts, inst0, targets0, prev, lastReq, n>>

\* lines 79-96: describe_target_groups, register_targets(backup_id, port),
\* either failure logged; then the 200 response
alarm_register ==
    /\ pc = "al_register"
    /\ \E outcome \in {"describe_failed", "register_failed", "registered"} :
         /\ calls' = LET described ==
                            Append(calls, [api |-> "describe_target_groups",
                                           id |-> target_group,
                                           ok |-> outcome # "describe_failed"])
                     IN  IF outcome = "describe_failed" THEN described
                         ELSE Append(described,
                                     [api |-> "register_targets", id |-> backup,
                                      ok |-> outcome = "registered"])
         /\ targets' = IF outcome = "registered"
                       THEN [targets EXCEPT ![target_group] = @ \cup {backup}]
                       ELSE targets
    /\ Finish(FailoverComplete(service))
    /\ UNCHANGED <<inst, op, input, service, primary, backup, target_group,
                   attempts, inst0, targets0, prev, lastReq, n>>

(***************************************************************************)
(* src/quick-fix-lambda.py: the permissive handler                         *)
(***************************************************************************)
\* str.lower() of a piece
Lower(w) ==
    CASE w = "COTURN" -> "coturn"
      [] w = "ALARM" -> "alarm"
      [] OTHER -> w

\* `service in text` for one piece of text: substring, case-sensitive
Occurs(svc, w) ==
    \/ svc = w
    \/ svc = "signaling" /\ w = "signaling-health-check"

\* the events the handler receives: any payload; text is json.dumps(event)
QuickEvents ==
    {[valid |-> TRUE, text |-> t] :
        t \in { <<"ALARM">>, <<"COTURN">>, <<"signaling-health-check">>,
                <<"frp", "ALARM">>, <<"frp", "COTURN">>,
                <<"COTURN", "signaling-health-check">> }}

\* json.dumps(event).lower()
EventStr(event) == [i \in 1..Len(event.text) |-> Lower(event.text[i])]

\* `service in event_str`
InEventStr(svc, event_str) ==
    \E i \in 1..Len(event_str) : Occurs(svc, event_str[i])

\* faulty variant: the loop does not break, the last service that occurs wins
TriggeredServiceLast(event_str) ==
    LET hits == {i \in 1..Len(services) : InEventStr(services[i], event_str)}
    IN  IF hits = {} THEN None
        ELSE services[CHOOSE i \in hits : \A j \in hits : i >= j]

\* lines 18-24: the first service of the list that occurs in event_str
TriggeredService(event_str) ==
    LET hits == {i \in 1..Len(services) : InEventStr(services[i], event_str)}
    IN  IF hits = {} THEN None
        ELSE services[CHOOSE i \in hits : \A j \in hits : i <= j]

\* line 28: the response to an event that names no service
NoServiceIdentified == Response(200, <<"No service identified", "">>)

\* handler(event, context) is invoked: lines 13-36
quick_handler(event) ==
    /\ Begin("quick", event)
    /\ primary' = None /\ target_group' = None
    /\ LET triggered_service == TriggeredService(EventStr(event))
       IN  /\ service' = triggered_service
           /\ IF triggered_service = None
              THEN Finish(NoServiceIdentified) /\ backup' = None
              ELSE LET backup_id == Environ("BACKUP_", Upper(triggered_service))
                   IN  /\ backup' = backup_id
                       /\ IF backup_id = None
                          THEN Finish(Response(404,
                                   <<"No backup for", triggered_service>>))
                          ELSE pc' = "qf_describe" /\ result' = NoResult

\* what the `except Exception` returns
QuickError == Response(500, <<"Error", "ClientError">>)

\* lines 40-48: look for a running primary
quick_describe ==
    /\ pc = "qf_describe"
    /\ \E ok \in BOOLEAN :
         IF ok
         THEN LET found == DescribeInstances(<<service, "primary">>, {"running"})
              IN  IF found = {}
                  THEN pc' = "qf_start" /\ primary' = primary /\ result' = result
                  ELSE /\ primary' = CHOOSE id \in found : TRUE
                       /\ pc' = "qf_stop" /\ result' = result
         ELSE Finish(QuickError) /\ primary' = primary
    /\ UNCHANGED <<inst, targets, op, input, service, backup, target_group,
                   attempts, calls, inst0, targets0, prev, lastReq, n>>

\* line 50: ec2.stop_instances(InstanceIds=[primary_id])
quick_stop ==
    /\ pc = "qf_stop"
    /\ \E ok \in StopOutcomes(primary) :
         /\ StopInstances(primary, ok)
         /\ IF ok THEN pc' = "qf_start" /\ result' = result
                  ELSE Finish(QuickError)
    /\ UNCHANGED <<targets, op, input, service, primary, backup, target_group,
                   attempts, inst0, targets0, prev, n>>

\* lines 54-59: ec2.start_instances(InstanceIds=[backup_id]), then the 200
quick_start ==
    /\ pc = "qf_start"
    /\ \E ok \in StartOutcomes(backup) :
         /\ StartInstances(backup, ok)
         /\ IF ok THEN Finish(FailoverComplete(service))
                  ELSE Finish(QuickError)
    /\ UNCHANGED <<targets, op, input, service, primary, backup, target_group,
                   attempts, inst0, targets0, prev, n>>

(***************************************************************************)
(* The provider: an instance completes the transition it is in.            *)
(***************************************************************************)
InstanceProgress ==
    /\ \E id \in InstanceIds :
         /\ inst[id] \in {"pending", "stopping"}
         /\ inst' = [inst EXCEPT ![id] =
                        IF @ = "pending" THEN "running" ELSE "stopped"]
    /\ UNCHANGED <<targets, pc, op, input, service, primary, backup,
                   target_group, attempts, calls, result, inst0, targets0,
                   prev, lastReq, n>>

(***************************************************************************)
(* The specification.                                                      *)
(***************************************************************************)
\* the instance states the deployment can be found in
InitialInst ==
    {f \in [InstanceIds -> States] :
        /\ f["i-sig-p"] \in {"running", "stopped"}
        /\ f["i-sig-b"] \in {"running", "stopped"}
        /\ f["i-cot-p"] \in {"running", "terminated"}
        /\ f["i-cot-b"] = "stopped"}

Init ==
    /\ inst \in InitialInst
    /\ targets = [g \in TargetGroups |->
                    IF g = "tg-signaling" THEN {"i-sig-p"} ELSE {}]
    /\ pc = "idle"
    /\ op = "none"
    /\ input = [valid |-> TRUE, text |-> <<>>]
    /\ service = None /\ primary = None /\ backup = None
    /\ target_group = None
    /\ attempts = 0
    /\ calls = <<>>
    /\ result = NoResult
    /\ inst0 = inst
    /\ targets0 = targets
    /\ prev = NoPrev
    /\ lastReq = [id \in InstanceIds |-> "none"]
    /\ n = 0

Invoke ==
    \/ \E s \in CliArgs : failover(s)
    \/ \E s \in CliArgs : failback(s)
    \/ \E e \in AlarmEvents : alarm_handler(e)
    \/ \E e \in QuickEvents : quick_handler(e)

Step ==
    \/ failover_lookup \/ failover_stop \/ failover_start \/ failover_wait
    \/ failback_lookup \/ failback_stop \/ failback_start \/ failback_wait
    \/ alarm_describe \/ alarm_stop \/ alarm_start \/ alarm_wait
    \/ alarm_deregister \/ alarm_register
    \/ quick_describe \/ quick_stop \/ quick_start

Next == Invoke \/ Step \/ InstanceProgress

Spec == Init /\ [][Next]_vars

\* the handler runs on: its step is taken while one is enabled
FairSpec == Spec /\ WF_vars(Step)

(***************************************************************************)
(* Vocabulary of the properties.                                           *)
(***************************************************************************)
Done == pc = "done"

\* the calls of this invocation as <<api, id>>, in order
Issued == [i \in 1..Len(calls) |-> <<calls[i].api, calls[i].id>>]

IsInstanceCall(c) == c[1] \in {"stop_instances", "start_instances"}

IsTargetCall(c) == c[1] \in {"deregister_targets", "register_targets"}

\* the stop / start calls of this invocation, in order
InstanceCalls == SelectSeq(Issued, IsInstanceCall)

\* the deregister / register calls of this invocation, in order
TargetCalls == SelectSeq(Issued, IsTargetCall)

HasCall(api) == \E i \in 1..Len(calls) : calls[i].api = api

AllAccepted == \A i \in 1..Len(calls) : calls[i].ok

\* the invocation ended because a provider call raised
Raised ==
    \/ result.ret = "exception"
    \/ result.statusCode = 500 /\ result.body[2] = "ClientError"

\* the waiter of the alarm handler gave up
TimedOut == result.statusCode = 500 /\ result.body[2] = "Max attempts exceeded"

\* the instance with tag "{svc}-{role}" is one get_instance_id would return in f
Resolvable(svc, role, f) ==
    /\ InstanceOf(svc, role) # None
    /\ f[InstanceOf(svc, role)] \in {"running", "stopped"}

\* where an instance left alone ends up
Settled(st) ==
    CASE st = "pending" -> "running" [] st = "stopping" -> "stopped" [] OTHER -> st

\* no instance has changed but by completing the transition it was in
InstancesUntouched == \A id \in InstanceIds : inst[id] \in {inst0[id], Settled(inst0[id])}

(***************************************************************************)
(* The claims.                                                             *)
(***************************************************************************)
\* the service of a failover invocation has both instances, P and B
FailoverPair(P, B) ==
    /\ P = InstanceOf(service, "primary") /\ P # None
    /\ B = InstanceOf(service, "backup") /\ B # None
    /\ op = "alarm" => B = Environ("BACKUP_", Upper(service))

\* C1 as the spec states it: with primary and backup both resolvable (running
\* or stopped), a Failover invocation (CLI or alarm handler) in which no provider
\* call raises ends with the backup running, having issued exactly one stop for
\* the primary, one start for the backup, and no other stop or start.
C1_AsClaimed ==
    \A P, B \in InstanceIds :
        ( /\ Done /\ op \in {"failover", "alarm"} /\ input.valid
          /\ FailoverPair(P, B)
          /\ Resolvable(service, "primary", inst0)
          /\ Resolvable(service, "backup", inst0)
          /\ ~Raised )
        => /\ inst[B] = "running"
           /\ InstanceCalls = << <<"stop_instances", P>>, <<"start_instances", B>> >>

\* C1 (amended): a Failover invocation that reports success (CLI True, alarm
\* handler 200) ends with the backup running, having issued exactly one accepted
\* stop for the primary, then one accepted start for the backup, and no other
\* stop or start; the CLI reports success whenever both instances are resolvable
\* and no call raises; the alarm handler does so when the primary is running and
\* the wait does not time out, and when the primary is stopped it returns 404
\* without any call.
C1_Failover ==
    \A P, B \in InstanceIds :
        (Done /\ op \in {"failover", "alarm"} /\ input.valid /\ FailoverPair(P, B))
        => /\ Succeeded(result)
              => /\ inst[B] = "running"
                 /\ InstanceCalls =
                        << <<"stop_instances", P>>, <<"start_instances", B>> >>
                 /\ calls[1].ok /\ calls[2].ok
           /\ ( /\ op = "failover"
                /\ Resolvable(service, "primary", inst0)
                /\ Resolvable(service, "backup", inst0)
                /\ ~Raised )
              => result.ret = "True"
           /\ (op = "alarm" /\ inst0[P] = "running" /\ ~Raised /\ ~TimedOut)
              => result.statusCode = 200
           /\ (op = "alarm" /\ inst0[P] = "stopped" /\ ~Raised)
              => result.statusCode = 404 /\ calls = <<>>

\* C1 witness: the alarm handler completed a failover of a stopped backup
C1_Witness ==
    /\ Done /\ op = "alarm" /\ result.statusCode = 200
    /\ service = "signaling" /\ inst0["i-sig-b"] = "stopped"
    /\ inst["i-sig-b"] = "running" /\ Len(InstanceCalls) = 2

\* nothing has been asked of the provider and nothing has changed
NoEffect == calls = <<>> /\ targets = targets0 /\ InstancesUntouched

\* C2: in every entry point, when the backup is not resolved, or the event
\* cannot be parsed, the operation reports the failure (False / 404 / 400) and
\* no stop, start, deregister or register call is issued: instances and routing
\* target are as they were.
C2_NoBackupNoMutation ==
    /\ (op \in {"failover", "failback"} /\ backup = None) => NoEffect
    /\ (op \in {"failover", "failback"} /\ Done /\ backup = None /\ ~Raised)
       => result.ret = "False"
    /\ (op = "alarm" /\ ~input.valid)
       => Done /\ result.statusCode = 400 /\ NoEffect
    /\ (op = "alarm" /\ input.valid /\ backup = None)
       => Done /\ result.statusCode = 404 /\ NoEffect
    /\ (op = "quick" /\ service # None /\ backup = None)
       => Done /\ result.statusCode = 404 /\ NoEffect

\* C2 witness: CLI failover found the primary but no backup, and returned False
C2_Witness ==
    /\ Done /\ op = "failover" /\ primary # None /\ backup = None
    /\ result.ret = "False" /\ calls = <<>>

\* C3: in the alarm handler, once the primary is stopped, the backup started
\* and seen running, the result is 200 whatever the routing-target calls do; a
\* failed deregistration is followed by the attempt to register the backup.
C3_RoutingBestEffort ==
    op = "alarm" =>
        /\ pc \in {"al_deregister", "al_register"}
           => /\ inst[backup] = "running"
              /\ InstanceCalls = << <<"stop_instances", primary>>,
                                    <<"start_instances", backup>> >>
              /\ calls[1].ok /\ calls[2].ok
        /\ pc = "al_register" => HasCall("deregister_targets")
        /\ (Done /\ HasCall("deregister_targets"))
           => /\ result.statusCode = 200
              /\ HasCall("describe_target_groups")
        /\ (Done /\ \E i \in 1..Len(calls) :
                        calls[i].api = "describe_target_groups" /\ calls[i].ok)
           => Issued[Len(Issued)] = <<"register_targets", backup>>

\* C3 witness: deregistration and registration both failed, and the result is 200
C3_Witness ==
    /\ Done /\ op = "alarm" /\ result.statusCode = 200
    /\ \E i, j \in 1..Len(calls) :
         /\ calls[i].api = "deregister_targets" /\ ~calls[i].ok
         /\ calls[j].api = "register_targets" /\ ~calls[j].ok
    /\ targets = targets0

\* C4 as the spec states it: a success result (True, or 200 with 'Failover
\* complete for <service>') is returned only once the backup is running.
C4_AsClaimed ==
    ( /\ Done /\ op \in {"failover", "alarm", "quick"}
      /\ \/ result.ret = "True"
         \/ result.statusCode = 200 /\ result.body[1] = "Failover complete for" )
    => inst[backup] = "running"

\* C4 (amended): CLI failover and the alarm handler report success only once
\* the backup is running; the permissive handler returns 200 'Failover complete'
\* as soon as the start call for the backup is accepted, the backup being
\* pending or running.
C4_SuccessAfterRunning ==
    /\ (Done /\ op = "failover" /\ result.ret = "True") => inst[backup] = "running"
    /\ (Done /\ op = "alarm" /\ result.statusCode = 200) => inst[backup] = "running"
    /\ ( /\ Done /\ op = "quick"
         /\ result.statusCode = 200 /\ result.body[1] = "Failover complete for" )
       => /\ calls[Len(calls)] =
                [api |-> "start_instances", id |-> backup, ok |-> TRUE]
          /\ inst[backup] \in {"pending", "running"}

\* C4 witness: the alarm handler reports 200 for a backup that had to start
C4_Witness ==
    /\ Done /\ op = "alarm" /\ result.statusCode = 200
    /\ inst0[backup] = "stopped" /\ inst[backup] = "running"
    /\ target_group = None

\* C5: failback mirrors failover: with both instances resolvable, one stop for
\* the backup, then one start for the primary, then True once the primary is
\* running; with either unresolvable, False and no call; the routing target is
\* never touched.
C5_Failback ==
    op = "failback" =>
        /\ targets = targets0 /\ TargetCalls = <<>>
        /\ \A i \in 1..Len(Issued) :
             Issued[i] = << <<"stop_instances", backup>>,
                            <<"start_instances", primary>> >>[i]
        /\ Len(Issued) <= 2
        /\ Done =>
             /\ result.ret = "True"
                => /\ Len(Issued) = 2 /\ AllAccepted
                   /\ primary = InstanceOf(service, "primary")
                   /\ backup = InstanceOf(service, "backup")
                   /\ inst[primary] = "running"
             /\ ( /\ Resolvable(service, "primary", inst0)
                  /\ Resolvable(service, "backup", inst0)
                  /\ ~Raised )
                => result.ret = "True"
             /\ (~Raised /\ NotFound(primary, backup))
                => result.ret = "False" /\ NoEffect
             /\ result.ret = "False" => NotFound(primary, backup) /\ NoEffect

\* C5 witness: failback brought a stopped primary back
C5_Witness ==
    /\ Done /\ op = "failback" /\ result.ret = "True"
    /\ inst0[primary] = "stopped" /\ inst0[backup] = "running"
    /\ inst[primary] = "running" /\ inst[backup] \in {"stopping", "stopped"}

\* the services of the list that occur in the lower-cased event text
Named == {svc \in ServiceSet : InEventStr(svc, EventStr(input))}

\* the place of a service in the fixed list
Rank(svc) == CHOOSE i \in 1..Len(services) : services[i] = svc

\* C6: the permissive handler selects the first service of the list, in list
\* order, whose name occurs in the lower-cased event; with the backup
\* configured it issues the start for the backup whether or not a running
\* primary is found; it issues a stop only for a running primary it found; it
\* makes no routing-target call.
C6_Permissive ==
    op = "quick" =>
        /\ service = None <=> Named = {}
        /\ service # None
           => service \in Named /\ \A o \in Named : Rank(service) <= Rank(o)
        /\ targets = targets0 /\ TargetCalls = <<>>
        /\ ~HasCall("describe_target_groups")
        /\ \A i \in 1..Len(Issued) :
             Issued[i][1] = "stop_instances"
             => /\ i = 1 /\ primary # None /\ Issued[i][2] = primary
                /\ primary = InstanceOf(service, "primary")
                /\ inst0[primary] \in {"running", "pending"}
        /\ (Done /\ backup # None /\ ~Raised)
           => /\ result.statusCode = 200
              /\ Issued[Len(Issued)] = <<"start_instances", backup>>
              /\ backup = Environ("BACKUP_", Upper(service))
              /\ primary = None => Issued = << <<"start_instances", backup>> >>
              /\ primary # None => Len(Issued) = 2

\* C6 witness: "coturn" is picked from a payload that names frp first, and its
\* backup is started although no running primary exists
C6_Witness ==
    /\ Done /\ op = "quick" /\ input.text = <<"frp", "COTURN">>
    /\ service = "coturn" /\ primary = None
    /\ inst0["i-cot-p"] = "terminated"
    /\ Issued = << <<"start_instances", "i-cot-b">> >>
    /\ result.statusCode = 200

\* this invocation repeats, for the same service and through the same entry
\* point, a failover that has just succeeded
SecondFailover ==
    /\ op \in {"failover", "alarm"} /\ input.valid
    /\ prev.op = op /\ prev.service = service /\ prev.ok

\* C7 as the spec states it: a second Failover, the first having completed
\* with the primary stopped and the backup running, issues the stop and the
\* start again, reports success again and leaves primary stopped, backup running.
C7_AsClaimed ==
    \A P, B \in InstanceIds :
        ( /\ Done /\ SecondFailover /\ FailoverPair(P, B)
          /\ inst0[P] = "stopped" /\ inst0[B] = "running"
          /\ ~Raised )
        => /\ Succeeded(result)
           /\ InstanceCalls = << <<"stop_instances", P>>, <<"start_instances", B>> >>
           /\ inst[P] = "stopped" /\ inst[B] = "running"

\* C7 (amended): a second Failover leaves the instance states as the first left
\* them (primary stopping or stopped, backup running).  Through the CLI, once
\* the primary has reached stopped, it issues the stop and the start again and
\* returns True; invoked while the primary is still stopping it may find no
\* primary and return False without a call.  Through the alarm handler it
\* issues no call and returns 404 'Primary not found', since that handler looks
\* for a running primary.
C7_SecondFailover ==
    \A P, B \in InstanceIds :
        (SecondFailover /\ FailoverPair(P, B))
        => /\ inst0[B] = "running" /\ inst0[P] \in {"stopping", "stopped"}
           /\ inst[B] = "running" /\ inst[P] \in {inst0[P], "stopped"}
           /\ (Done /\ op = "failover" /\ inst0[P] = "stopped" /\ ~Raised)
              => /\ result.ret = "True"
                 /\ InstanceCalls =
                        << <<"stop_instances", P>>, <<"start_instances", B>> >>
                 /\ AllAccepted
           /\ (Done /\ op = "failover" /\ result.ret = "False")
              => inst0[P] = "stopping" /\ calls = <<>>
           /\ op = "alarm" => calls = <<>>
           /\ (Done /\ op = "alarm" /\ ~Raised)
              => result.statusCode = 404 /\ result.body[1] = "Primary not found"

\* C7 witness: the CLI has failed over a service that already was failed over
C7_Witness ==
    /\ Done /\ SecondFailover /\ op = "failover" /\ result.ret = "True"
    /\ inst0[primary] = "stopped" /\ inst0[backup] = "running"
    /\ inst[primary] = "stopped" /\ inst[backup] = "running"
    /\ Len(calls) = 2

\* C8 as the spec states it: the status code of either handler classifies the
\* outcome: 200 only for a failover carried out, 404 when a needed identifier
\* (service, backup, primary) is not found, 400 for an unparsable event, 500
\* when a provider call on the stop/start/wait path raises; an event naming no
\* service is never answered with 200.
C8_AsClaimed ==
    (Done /\ op \in {"alarm", "quick"}) =>
        /\ result.statusCode \in {200, 400, 404, 500}
        /\ result.statusCode = 200
           => /\ service # None /\ backup # None
              /\ \E i \in 1..Len(calls) :
                   calls[i] = [api |-> "start_instances", id |-> backup, ok |-> TRUE]
        /\ ~input.valid => result.statusCode = 400
        /\ (input.valid /\ (service = None \/ backup = None))
           => result.statusCode = 404
        /\ result.statusCode = 404
           => calls = <<>> /\ (service = None \/ backup = None \/ primary = None)
        /\ Raised <=> (result.statusCode = 500 /\ ~TimedOut)

\* what holds of the alarm handler at every moment: fewer than MaxAttempts
\* polls behind it while it waits, no start of the primary, and after an
\* accepted stop a result other than 200 is a 500 with the routing target and
\* the stop of the primary left as they are
C9_Safety ==
    op = "alarm" =>
        /\ attempts < MaxAttempts
        /\ \A i \in 1..Len(Issued) :
             Issued[i][1] = "start_instances" => Issued[i][2] # primary
        /\ pc \in {"al_deregister", "al_register"} => inst[backup] = "running"
        /\ (Done /\ result.statusCode = 200) => inst[backup] = "running"
        /\ (Done /\ Len(calls) >= 1 /\ calls[1].ok /\ ~Succeeded(result))
           => /\ result.statusCode = 500
              /\ Issued[1] = <<"stop_instances", primary>>
              /\ Len(Issued) <= 2
              /\ targets = targets0
              /\ lastReq[primary] = "stop"
              /\ inst[primary] \in {"stopping", "stopped"}
        /\ (Done /\ TimedOut)
           => Issued = << <<"stop_instances", primary>>,
                          <<"start_instances", backup>> >> /\ AllAccepted

\* C9: the wait of the alarm handler is bounded by 12 polls and the handler
\* always ends with a result; when the backup is not seen running within the
\* bound, or the start or the wait raises, the result is 500, no routing-target
\* call is made and nothing is rolled back: no start is ever issued for the
\* primary, whose stop stands.
C9_BoundedWait ==
    /\ []C9_Safety
    /\ (op = "alarm" /\ ~Done) ~> (op = "alarm" /\ Done)

\* C9 witness: the twelfth poll did not see the backup running; the handler
\* returned 500 and the primary stays stopped
C9_Witness ==
    /\ Done /\ op = "alarm" /\ TimedOut
    /\ inst[primary] = "stopped" /\ Len(calls) = 2

\* the two instances of a service both have a stop as their last request
BothStopped(svc) ==
    /\ InstanceOf(svc, "primary") # None /\ InstanceOf(svc, "backup") # None
    /\ lastReq[InstanceOf(svc, "primary")] = "stop"
    /\ lastReq[InstanceOf(svc, "backup")] = "stop"

\* this failover / failback call follows a successful failover of the same
\* service that began with the primary running and the backup stopped
AfterNominalFailover ==
    /\ op \in {"failover", "failback"} /\ prev.op = "failover"
    /\ prev.service = service /\ prev.ok /\ prev.nominal

\* this failback follows a successful failover of the same service
FailbackAfterFailover ==
    /\ op = "failback" /\ prev.op = "failover"
    /\ prev.service = service /\ prev.ok

\* at the end of a CLI operation that returned True: started is running and
\* was last asked to start, stopped was last asked to stop
EndOfSwitch(stopped, started) ==
    /\ inst[started] = "running" /\ lastReq[started] = "start"
    /\ inst[stopped] \in {"stopping", "stopped"} /\ lastReq[stopped] = "stop"

\* C10 as stated: failover then failback, both successful, return to primary
\* running and backup stopped (or stopping); each ends with the started
\* instance running and a stop issued for the other; and after any sequence of
\* failover / failback calls the two instances of a service are never both
\* left with a stop as their last issued request (stated here for the call
\* that follows a successful failover from the nominal state).
C10_AsClaimed ==
    /\ (Done /\ FailbackAfterFailover /\ result.ret = "True")
       => inst[primary] = "running" /\ inst[backup] \in {"stopping", "stopped"}
    /\ (Done /\ op = "failover" /\ result.ret = "True")
       => EndOfSwitch(primary, backup)
    /\ (Done /\ op = "failback" /\ result.ret = "True")
       => EndOfSwitch(backup, primary)
    /\ (Done /\ AfterNominalFailover) => ~BothStopped(service)

\* C10 (amended): the round trip holds as stated; of the last requests: a
\* failover / failback call that returns True leaves the instance it started
\* with a start and the other with a stop as last issued request, and a call
\* that returns False issues no request.  (A call in which a provider call
\* raises can leave both instances with a stop as their last issued request.)
C10_RoundTrip ==
    /\ (Done /\ FailbackAfterFailover /\ result.ret = "True")
       => inst[primary] = "running" /\ inst[backup] \in {"stopping", "stopped"}
    /\ (Done /\ op = "failover" /\ result.ret = "True")
       => EndOfSwitch(primary, backup) /\ ~BothStopped(service)
    /\ (Done /\ op = "failback" /\ result.ret = "True")
       => EndOfSwitch(backup, primary) /\ ~BothStopped(service)
    /\ (Done /\ op \in {"failover", "failback"} /\ result.ret = "False")
       => calls = <<>>

\* C10 witness: from primary running and backup stopped, failover then
\* failback, both True, are back at primary running and backup stopped
C10_Witness ==
    /\ Done /\ FailbackAfterFailover /\ prev.nominal /\ result.ret = "True"
    /\ inst[primary] = "running" /\ inst[backup] = "stopped"

=============================================================================
